---- MODULE Spec2Model ----
(***************************************************************************)
(* A model of the ChatBotAI integration scripts: the JSON file queue, the  *)
(* conversation memories, prompt assembly, the Telegram bot handlers and   *)
(* the trigger -> handler -> action pipelines.                             *)
(*                                                                         *)
(* Each subsystem has its own group of variables and its own               *)
(* specification (SpecQueue, SpecRace, ...).  A specification moves only   *)
(* its own group; the other groups stay parked at their initial value.     *)
(***************************************************************************)
EXTENDS Integers, Sequences, FiniteSets, TLC

VARIABLES
    qfile,      \* the queue file of the single-process queue scenario
    qret,       \* what the last load_queue call returned
    qlog,       \* list last written by save_queue/clear_queue ++ entries appended since
    rfile,      \* the queue file shared by two appending processes
    rproc,      \* per process: pc, the entry it appends, the list it loaded
    rbase,      \* the list in the file when both processes had loaded and neither had saved
    mhistory,   \* save_memory's history argument
    mlimit,     \* save_memory's max_pairs / max_history argument
    mimpl,      \* which save_memory is called: "generic" or "agent"
    mfile,      \* the memory file
    mloaded,    \* what load_memory returned after the save
    mpc,        \* "start", "saved", "loaded"
    smMax,      \* SimpleMemory._max
    smStore,    \* SimpleMemory._store: chat id -> deque content
    smLog,      \* per chat: every message of the turns completed since the last clear
    smLast,     \* the last agent call: chat, outcome, its text and reply, the
                \* chat's history and the whole store before it
    tlTrigger,  \* telegram/triggers/trigger_queue.json
    tlReply,    \* telegram/handlers/reply_queue.json
    tlRun,      \* the last handler run: its arguments, the entries it loaded, and
                \* whether nothing has touched the files since it returned
    tgTrigger,  \* tg/triggers/trigger_queue.json
    tgReply,    \* tg/handlers/reply_queue.json
    tgLastChat, \* tg/last_chat_id.txt
    tgUuid,     \* number of uuid4() values drawn so far
    tgOut,      \* the last tg handler run: its arguments and what it printed
    tgSent,     \* (chat_id, text) pairs handed to bot.send_message by the action stage
    tgStage,    \* per trigger entry id: queued, then handled once a handler run
                \* followed, then actioned once an action run followed that
    gInbox,     \* Gmail inbox: message id -> "absent", "unread" or "read"
    gTrigger,   \* gmail/triggers/trigger_queue.json
    gPoll,      \* the running poll_inbox call: pc, messages still to do, mark_as_read
    gUuid,      \* number of uuid4() values drawn by poll_inbox
    gAllMark,   \* every poll so far ran with mark_as_read enabled
    bUpd,       \* the update a bot handler is working on, and how far it got
    bReplies,   \* the texts handed to reply_text for that update
    bServed,    \* updates the bot has finished with
    bmArgs,     \* build_messages' arguments and which copy is called
    bmOut,      \* what it returned, and the history list after the call
    bmpc,       \* "start", "done"
    rnFile,     \* ChatBotGeneric memory.json
    rnTurn,     \* the running or last run() call: pc, arguments, config, locals,
                \* external API calls made, and the memory file when it was called
    rnCount,    \* run() calls made so far
    fFile,      \* a queue file that may hold anything
    fCall,      \* the last queue_manager call on it: operation, the file before,
                \* the exception raised or the value returned, clears in a row
    lpArgs,     \* load_prompt's arguments, the prompt file and which copy is called
    lpOut,      \* what the call returned or raised
    lppc,       \* "start", "done"
    saRun,      \* a gmail send_all call: its entries, loop position, the sent
                \* counter, what happened to each entry so far, the value returned
    pdCall,     \* a Pinecone delete call: function, skip_confirm, position, the
                \* answer typed, whether the delete operation was called, and what
                \* the target was before the call
    pdTarget,   \* the index / namespace: "present" or "gone"
    pdCalls,    \* delete calls made so far
    ptTrigger,  \* telegram/triggers/trigger_queue.json, shared by two processes
    ptReply,    \* telegram/handlers/reply_queue.json
    ptBot,      \* the trigger bot inside append_queue: pc, its entry, the list loaded
    ptHandler,  \* the handler run: pc, the entries it loaded, its arguments
    ptCount,    \* messages the trigger bot has received
    ptQueued,   \* texts of the entries the trigger bot has written to the queue
    ptPicked,   \* texts of the entries some handler run has loaded
    pgProg      \* a program from its start: which one, its configuration, whether
                \* it exited or serves, messages received and answered, API calls

qvars == <<qfile, qret, qlog>>
rvars == <<rfile, rproc, rbase>>
mvars == <<mhistory, mlimit, mimpl, mfile, mloaded, mpc>>
smvars == <<smMax, smStore, smLog, smLast>>
tlvars == <<tlTrigger, tlReply, tlRun>>
tgvars == <<tgTrigger, tgReply, tgLastChat, tgUuid, tgOut, tgSent, tgStage>>
gvars == <<gInbox, gTrigger, gPoll, gUuid, gAllMark>>
bvars == <<bUpd, bReplies, bServed>>
bmvars == <<bmArgs, bmOut, bmpc>>
rnvars == <<rnFile, rnTurn, rnCount>>
fvars == <<fFile, fCall>>
pgvars == <<pgProg>>
lpvars == <<lpArgs, lpOut, lppc>>
savars == <<saRun>>
pdvars == <<pdCall, pdTarget, pdCalls>>
ptvars == <<ptTrigger, ptReply, ptBot, ptHandler, ptCount, ptQueued, ptPicked>>
vars == <<qvars, rvars, mvars, smvars, tlvars, tgvars, gvars, bvars, bmvars, rnvars, fvars,
          pgvars, lpvars, savars, pdvars, ptvars>>

notQ == <<rvars, mvars, smvars, tlvars, tgvars, gvars,
    bvars, bmvars, rnvars, fvars, pgvars, lpvars, savars, pdvars, ptvars>>
notR == <<qvars, mvars, smvars, tlvars, tgvars, gvars,
    bvars, bmvars, rnvars, fvars, pgvars, lpvars, savars, pdvars, ptvars>>
notM == <<qvars, rvars, smvars, tlvars, tgvars, gvars,
    bvars, bmvars, rnvars, fvars, pgvars, lpvars, savars, pdvars, ptvars>>
notSM == <<qvars, rvars, mvars, tlvars, tgvars, gvars,
    bvars, bmvars, rnvars, fvars, pgvars, lpvars, savars, pdvars, ptvars>>
notTL == <<qvars, rvars, mvars, smvars, tgvars, gvars,
    bvars, bmvars, rnvars, fvars, pgvars, lpvars, savars, pdvars, ptvars>>
notTG == <<qvars, rvars, mvars, smvars, tlvars, gvars,
    bvars, bmvars, rnvars, fvars, pgvars, lpvars, savars, pdvars, ptvars>>
notG == <<qvars, rvars, mvars, smvars, tlvars, tgvars,
    bvars, bmvars, rnvars, fvars, pgvars, lpvars, savars, pdvars, ptvars>>
notB == <<qvars, rvars, mvars, smvars, tlvars, tgvars,
    gvars, bmvars, rnvars, fvars, pgvars, lpvars, savars, pdvars, ptvars>>
notBM == <<qvars, rvars, mvars, smvars, tlvars, tgvars,
    gvars, bvars, rnvars, fvars, pgvars, lpvars, savars, pdvars, ptvars>>
notRN == <<qvars, rvars, mvars, smvars, tlvars, tgvars,
    gvars, bvars, bmvars, fvars, pgvars, lpvars, savars, pdvars, ptvars>>
notF == <<qvars, rvars, mvars, smvars, tlvars, tgvars,
    gvars, bvars, bmvars, rnvars, pgvars, lpvars, savars, pdvars, ptvars>>
notPG == <<qvars, rvars, mvars, smvars, tlvars, tgvars,
    gvars, bvars, bmvars, rnvars, fvars, lpvars, savars, pdvars, ptvars>>
notLP == <<qvars, rvars, mvars, smvars, tlvars, tgvars,
    gvars, bvars, bmvars, rnvars, fvars, pgvars, savars, pdvars, ptvars>>
notSA == <<qvars, rvars, mvars, smvars, tlvars, tgvars,
    gvars, bvars, bmvars, rnvars, fvars, pgvars, lpvars, pdvars, ptvars>>
notPD == <<qvars, rvars, mvars, smvars, tlvars, tgvars,
    gvars, bvars, bmvars, rnvars, fvars, pgvars, lpvars, savars, ptvars>>
notPT == <<qvars, rvars, mvars, smvars, tlvars, tgvars,
    gvars, bvars, bmvars, rnvars, fvars, pgvars, lpvars, savars, pdvars>>

\* ---------------------------------------------------------------- bounds
MaxQueue == 3      \* longest list handed to save_queue / grown by append_queue
NumEntries == 2    \* distinct queue entries (JSON objects) in play
MaxHistory == 5    \* longest history handed to save_memory
MaxPairs == 2      \* largest max_pairs / max_history handed to save_memory
MaxMemory == 3     \* largest SimpleMemory max_messages
MaxTurns == 3      \* completed turns per chat between two clears
MaxPending == 3    \* messages a trigger queues before the model stops it
MaxSent == 2       \* messages the action stage sends before the model stops it
MaxGQueue == 3     \* entries poll_inbox queues before the model stops it
MaxUpdates == 2    \* updates a bot handler serves before the model stops it
MaxRunCalls == 3   \* run() calls before the model stops it
MaxReplies == 3    \* longest reply list handed to gmail send_all
MaxDeleteCalls == 2 \* Pinecone delete calls before the model stops it

\* Python's None
NoneV == "None"

\* Sequences over S of length at most n
RECURSIVE SeqsUpTo(_, _)
SeqsUpTo(S, n) ==
    IF n = 0 THEN {<<>>}
    ELSE LET shorter == SeqsUpTo(S, n - 1)
         IN shorter \cup {Append(s, x) : s \in {t \in shorter : Len(t) = n - 1}, x \in S}

Min(a, b) == IF a < b THEN a ELSE b
Max(a, b) == IF a > b THEN a ELSE b

\* ------------------------------------------------ telegram/utils/queue_manager.py
\* A queue file is missing, or holds text that is invalid JSON, a JSON value
\* that is not an array, or a JSON array of entries.
MissingFile == [kind |-> "missing", items |-> <<>>]
InvalidJson == [kind |-> "invalid", items |-> <<>>]
JsonObject  == [kind |-> "object",  items |-> <<>>]

\* json.dumps(entries, ...) of a list: the text of a JSON array
json_dumps(entries) == [kind |-> "array", items |-> entries]

\* load_queue: [] for a missing file, for text json.loads rejects, and for JSON
\* that is not a list; the stored list otherwise
load_queue(f) ==
    IF f.kind = "missing" THEN <<>>
    ELSE IF f.kind = "invalid" THEN <<>>
    ELSE IF f.kind = "array" THEN f.items
    ELSE <<>>

\* save_queue: the file after path.write_text(json.dumps(entries))
save_queue(entries) == json_dumps(entries)

append_queue_dropping(f, entry) == save_queue(<<entry>>)

\* append_queue: load the whole list, append, write the whole list back
append_queue(f, entry) == save_queue(Append(load_queue(f), entry))

clear_queue_unlinks == MissingFile

\* clear_queue: the file after path.write_text("[]")
clear_queue == [kind |-> "array", items |-> <<>>]

QueueEntries == 1..NumEntries

\* ------------------------------------------------ single-process queue use
QParked ==
    /\ qfile = MissingFile
    /\ qret = <<>>
    /\ qlog = <<>>

QInit == QParked

QAppend(e) ==
    /\ Len(load_queue(qfile)) < MaxQueue
    /\ qfile' = append_queue(qfile, e)
    /\ qlog' = Append(qlog, e)
    /\ UNCHANGED <<qret, notQ>>

QSave(es) ==
    /\ qfile' = save_queue(es)
    /\ qlog' = es
    /\ UNCHANGED <<qret, notQ>>

QClear ==
    /\ qfile' = clear_queue
    /\ qlog' = <<>>
    /\ UNCHANGED <<qret, notQ>>

QLoad ==
    /\ qret' = load_queue(qfile)
    /\ UNCHANGED <<qfile, qlog, notQ>>

\* ------------------------------------------------ two processes appending
Procs == {1, 2}
RaceEntries == {10 + i : i \in 1..NumEntries}

RParked ==
    /\ rfile = MissingFile
    /\ rproc = [p \in Procs |-> [pc |-> "idle", entry |-> 0, entries |-> <<>>]]
    /\ rbase = [raced |-> FALSE, items |-> <<>>]

RInit ==
    /\ rfile \in {MissingFile} \cup {json_dumps(es) : es \in SeqsUpTo(QueueEntries, MaxQueue - 1)}
    /\ rproc = [p \in Procs |-> [pc |-> "idle", entry |-> 0, entries |-> <<>>]]
    /\ rbase = [raced |-> FALSE, items |-> <<>>]

\* append_queue line 90: entries = load_queue(queue_path)
RLoad(p, e) ==
    /\ rproc[p].pc = "idle"
    /\ \A q \in Procs : rproc[q].entry # e
    /\ rproc' = [rproc EXCEPT ![p] = [pc |-> "loaded", entry |-> e, entries |-> load_queue(rfile)]]
    /\ rbase' = IF \A q \in Procs \ {p} : rproc[q].pc = "loaded"
                THEN [raced |-> TRUE, items |-> load_queue(rfile)] ELSE rbase
    /\ UNCHANGED <<rfile, notR>>

RSave_rereads(p) ==
    /\ rproc[p].pc = "loaded"
    /\ rfile' = save_queue(Append(load_queue(rfile), rproc[p].entry))
    /\ rproc' = [rproc EXCEPT ![p].pc = "returned"]
    /\ UNCHANGED <<rbase, notR>>

\* append_queue lines 91-92: entries.append(entry); save_queue(queue_path, entries)
RSave(p) ==
    /\ rproc[p].pc = "loaded"
    /\ rfile' = save_queue(Append(rproc[p].entries, rproc[p].entry))
    /\ rproc' = [rproc EXCEPT ![p].pc = "returned"]
    /\ UNCHANGED <<rbase, notR>>

\* ------------------------------------------------ save_memory / load_memory
Roles == {"user", "assistant"}
Messages == {[role |-> r, content |-> "m"] : r \in Roles}

\* history[-m:] for m > 0
py_tail_head(history, m) == SubSeq(history, 1, Min(m, Len(history)))

py_tail(history, m) == SubSeq(history, Max(Len(history) - m, 0) + 1, Len(history))

save_memory_generic_n(history, max_pairs) ==
    IF max_pairs >= 0
    THEN json_dumps(IF max_pairs > 0 THEN py_tail(history, max_pairs) ELSE <<>>)
    ELSE json_dumps(history)

\* ChatBotGeneric/memory.py save_memory: the memory file after the call
save_memory_generic(history, max_pairs) ==
    IF max_pairs >= 0
    THEN LET max_messages == max_pairs * 2
         IN json_dumps(IF max_messages > 0 THEN py_tail(history, max_messages) ELSE <<>>)
    ELSE json_dumps(history)

save_memory_agent_messages(history, max_history) ==
    json_dumps(IF max_history > 0 THEN py_tail(history, max_history) ELSE <<>>)

\* agent/agent.py save_memory: the memory file after the call
save_memory_agent(history, max_history) ==
    LET max_messages == max_history * 2
    IN json_dumps(IF max_messages > 0 THEN py_tail(history, max_messages) ELSE <<>>)

\* load_memory (both copies): as load_queue
load_memory(f) ==
    IF f.kind = "missing" THEN <<>>
    ELSE IF f.kind = "invalid" THEN <<>>
    ELSE IF f.kind = "array" THEN f.items
    ELSE <<>>

MParked ==
    /\ mhistory = <<>>
    /\ mlimit = 0
    /\ mimpl = "generic"
    /\ mfile = MissingFile
    /\ mloaded = <<>>
    /\ mpc = "start"

MInit ==
    /\ mhistory \in SeqsUpTo(Messages, MaxHistory)
    /\ mlimit \in (0 - 1)..MaxPairs
    /\ mimpl \in {"generic", "agent"}
    /\ mfile = MissingFile
    /\ mloaded = <<>>
    /\ mpc = "start"

MSave ==
    /\ mpc = "start"
    /\ mfile' = IF mimpl = "generic" THEN save_memory_generic(mhistory, mlimit)
                ELSE save_memory_agent(mhistory, mlimit)
    /\ mpc' = "saved"
    /\ UNCHANGED <<mhistory, mlimit, mimpl, mloaded, notM>>

MLoad ==
    /\ mpc = "saved"
    /\ mloaded' = load_memory(mfile)
    /\ mpc' = "loaded"
    /\ UNCHANGED <<mhistory, mlimit, mimpl, mfile, notM>>

\* ------------------------------------------------ memory.py SimpleMemory, agent.py
ChatIds == {1, 2}
UserTexts == {"q1", "q2"}
Replies == {"r1"}

\* deque(maxlen=n).append(x): a full deque drops its oldest element
deque_append(d, x, maxlen) ==
    IF maxlen = 0 THEN d
    ELSE IF Len(d) = maxlen THEN Append(Tail(d), x)
    ELSE Append(d, x)

add_user_message(store, max, chat_id, text) ==
    [store EXCEPT ![chat_id] = deque_append(@, [role |-> "user", content |-> text], max)]

add_assistant_message(store, max, chat_id, text) ==
    [store EXCEPT ![chat_id] = deque_append(@, [role |-> "assistant", content |-> text], max)]

get_history(store, chat_id) == store[chat_id]

clear_every_chat(store, chat_id) == [c \in DOMAIN store |-> <<>>]

clear(store, chat_id) == [store EXCEPT ![chat_id] = <<>>]

NoCall == [chat |-> 0, outcome |-> "none", before |-> <<>>, text |-> "", reply |-> "",
           store |-> [c \in ChatIds |-> <<>>]]

SMParked ==
    /\ smMax = 1
    /\ smStore = [c \in ChatIds |-> <<>>]
    /\ smLog = [c \in ChatIds |-> <<>>]
    /\ smLast = NoCall

SMInit ==
    /\ smMax \in 1..MaxMemory
    /\ smStore = [c \in ChatIds |-> <<>>]
    /\ smLog = [c \in ChatIds |-> <<>>]
    /\ smLast = NoCall

\* ChatBotAgent.handle_message: get_context, build the messages, call the chat
\* model, then store the user message and the reply.  get_context or the
\* completion call may raise; nothing is stored then.
AgentHandleMessage(chat_id, user_text, outcome, reply) ==
    /\ Len(smLog[chat_id]) < 2 * MaxTurns
    /\ smLast' = [chat |-> chat_id, outcome |-> outcome,
                   before |-> get_history(smStore, chat_id),
                   text |-> user_text, reply |-> reply, store |-> smStore]
    /\ IF outcome = "ok"
       THEN /\ smStore' = add_assistant_message(
                              add_user_message(smStore, smMax, chat_id, user_text),
                              smMax, chat_id, reply)
            /\ smLog' = [smLog EXCEPT ![chat_id] =
                            @ \o <<[role |-> "user", content |-> user_text],
                                   [role |-> "assistant", content |-> reply]>>]
       ELSE UNCHANGED <<smStore, smLog>>
    /\ UNCHANGED <<smMax, notSM>>

\* ChatBotAgent.clear_memory (the /clear command)
AgentClearMemory(chat_id) ==
    /\ smStore' = clear(smStore, chat_id)
    /\ smLog' = [smLog EXCEPT ![chat_id] = <<>>]
    /\ smLast' = [chat |-> chat_id, outcome |-> "clear",
                   before |-> get_history(smStore, chat_id),
                   text |-> "", reply |-> "", store |-> smStore]
    /\ UNCHANGED <<smMax, notSM>>

AgentOutcomes == {"ok", "context_raises", "completion_raises"}

\* ------------------------------------------------ Python truthiness
\* `not v` for the values the pipelines test: None, the empty string and 0
Falsy(v) == v \in {NoneV, "", "0"}

\* ------------------------------------------------ telegram/ pipeline
TlChats == {"7", "8"}
TlTexts == {"hi", "yo"}
TlUser == [id |-> "42"]

\* the trigger entry handle_message builds (the timestamp is left out)
telegram_trigger_entry(chat_id, text) ==
    [chat |-> [id |-> chat_id], user |-> TlUser, message |-> [text |-> text]]

\* entries another writer may have left: the chat id or the text is missing or empty
TlForeignEntries ==
    {telegram_trigger_entry(NoneV, "hi"), telegram_trigger_entry("7", NoneV),
     telegram_trigger_entry("8", "")}

\* generate_reply: echoes the text
generate_reply(text) == text

telegram_reply_entry(entry) ==
    [chat |-> entry.chat, user |-> entry.user, original_message |-> entry.message,
     reply |-> [text |-> generate_reply(entry.message.text)]]

RECURSIVE telegram_build_loop(_, _, _)
telegram_build_loop(entries, filter_chat_id, replies) ==
    IF entries = <<>> THEN replies
    ELSE LET entry == Head(entries)
             chat_id == entry.chat.id
             text == entry.message.text
         IN IF Falsy(chat_id) \/ Falsy(text)
            THEN telegram_build_loop(Tail(entries), filter_chat_id, replies)
            ELSE IF ~Falsy(filter_chat_id) /\ chat_id # filter_chat_id
            THEN telegram_build_loop(Tail(entries), filter_chat_id, replies)
            ELSE telegram_build_loop(Tail(entries), filter_chat_id,
                                     Append(replies, telegram_reply_entry(entry)))

telegram_build_keep_first(entries, filter_chat_id) ==
    telegram_build_loop(IF entries = <<>> THEN <<>> ELSE <<Head(entries)>>,
                        filter_chat_id, <<>>)

\* telegram/handlers/build_replies.py build_replies
telegram_build_replies(entries, filter_chat_id) ==
    telegram_build_loop(entries, filter_chat_id, <<>>)

NoRun == [fresh |-> FALSE, found |-> <<>>, chat_id |-> NoneV, no_clear |-> FALSE]

TLParked ==
    /\ tlTrigger = MissingFile
    /\ tlReply = MissingFile
    /\ tlRun = NoRun

TLInit ==
    /\ tlTrigger \in {MissingFile, InvalidJson}
                     \cup {json_dumps(<<e>>) : e \in TlForeignEntries}
    /\ tlReply \in {MissingFile,
                    json_dumps(<<telegram_reply_entry(telegram_trigger_entry("8", "yo"))>>)}
    /\ tlRun = NoRun

\* telegram/triggers/bot.py handle_message: build the entry and append it
TlTriggerHandleMessage(chat_id, text) ==
    /\ Len(load_queue(tlTrigger)) < MaxPending
    /\ tlTrigger' = append_queue(tlTrigger, telegram_trigger_entry(chat_id, text))
    /\ tlRun' = [tlRun EXCEPT !.fresh = FALSE]
    /\ UNCHANGED <<tlReply, notTL>>

\* telegram/handlers/build_replies.py main
TlHandlerMain(chat_id, no_clear) ==
    LET entries == load_queue(tlTrigger)
    IN /\ tlRun' = [fresh |-> TRUE, found |-> entries, chat_id |-> chat_id,
                    no_clear |-> no_clear]
       /\ IF entries = <<>>
          THEN UNCHANGED <<tlTrigger, tlReply>>
          ELSE /\ tlReply' = save_queue(telegram_build_replies(entries, chat_id))
               /\ tlTrigger' = IF no_clear THEN tlTrigger ELSE clear_queue
       /\ UNCHANGED notTL

\* ------------------------------------------------ tg/ pipeline
TgChats == {"7", "8"}
TgTexts == {"hi"}
TgUser == [id |-> "42"]

\* str(uuid.uuid4()): a value never drawn before
uuid4(n) == ToString(n)
TgUuids == {uuid4(n) : n \in 1..MaxPending}

tg_trigger_entry(id, chat_id, text) ==
    [id |-> id, chat |-> [id |-> chat_id], user |-> TgUser, message |-> [text |-> text]]

\* entries handed to --trigger that no trigger wrote: no id, chat id or text
TgForeignEntries ==
    {tg_trigger_entry(NoneV, "7", "hi"), tg_trigger_entry("x", NoneV, "hi"),
     tg_trigger_entry("y", "8", "")}

tg_reply_entry_no_id(entry) ==
    [id |-> NoneV, chat |-> entry.chat, user |-> entry.user,
     original_message |-> entry.message,
     reply |-> [text |-> generate_reply(entry.message.text)]]

\* the reply entry build_replies makes of a trigger entry (timestamp left out)
tg_reply_entry(entry) ==
    [id |-> entry.id, chat |-> entry.chat, user |-> entry.user,
     original_message |-> entry.message,
     reply |-> [text |-> generate_reply(entry.message.text)]]

RECURSIVE tg_build_loop(_, _, _)
tg_build_loop(entries, filter_chat_id, replies) ==
    IF entries = <<>> THEN replies
    ELSE LET entry == Head(entries)
             chat_id == entry.chat.id
             text == entry.message.text
         IN IF Falsy(chat_id) \/ Falsy(text)
            THEN tg_build_loop(Tail(entries), filter_chat_id, replies)
            ELSE IF ~Falsy(filter_chat_id) /\ chat_id # filter_chat_id
            THEN tg_build_loop(Tail(entries), filter_chat_id, replies)
            ELSE tg_build_loop(Tail(entries), filter_chat_id,
                               Append(replies, tg_reply_entry(entry)))

\* tg/handlers/build_replies.py build_replies
tg_build_replies(entries, filter_chat_id) == tg_build_loop(entries, filter_chat_id, <<>>)

\* tg/actions/send_replies.py send_all: the (chat_id, text) pairs sent, in order
RECURSIVE tg_send_all(_, _)
tg_send_all(entries, filter_chat_id) ==
    IF entries = <<>> THEN <<>>
    ELSE LET entry == Head(entries)
             chat_id == entry.chat.id
             text == entry.reply.text
             rest == tg_send_all(Tail(entries), filter_chat_id)
         IN IF Falsy(chat_id) \/ Falsy(text) THEN rest
            ELSE IF ~Falsy(filter_chat_id) /\ chat_id # filter_chat_id THEN rest
            ELSE <<[id |-> entry.id, chat_id |-> chat_id, text |-> text]>> \o rest

NoOut == [mode |-> "none", input |-> <<>>, chat_id |-> NoneV, replies |-> <<>>]

TGParked ==
    /\ tgTrigger = MissingFile
    /\ tgReply = MissingFile
    /\ tgLastChat = NoneV
    /\ tgUuid = 0
    /\ tgOut = NoOut
    /\ tgSent = <<>>
    /\ tgStage = [u \in TgUuids |-> "absent"]

TGInit ==
    /\ tgTrigger = MissingFile
    /\ tgReply \in {MissingFile,
                    json_dumps(<<tg_reply_entry(tg_trigger_entry("old", "8", "yo"))>>)}
    /\ tgLastChat = NoneV
    /\ tgUuid = 0
    /\ tgOut = NoOut
    /\ tgSent = <<>>
    /\ tgStage = [u \in TgUuids |-> "absent"]

\* tg/triggers/bot.py handle_message: returns at once for a message without text,
\* else queues the entry under a fresh id, stores the chat id and acknowledges
TgTriggerHandleMessage(chat_id, text) ==
    /\ ~Falsy(text)
    /\ tgUuid < MaxPending
    /\ tgUuid' = tgUuid + 1
    /\ tgTrigger' = append_queue(tgTrigger, tg_trigger_entry(uuid4(tgUuid + 1), chat_id, text))
    /\ tgLastChat' = chat_id
    /\ tgStage' = [tgStage EXCEPT ![uuid4(tgUuid + 1)] = "queued"]
    /\ UNCHANGED <<tgReply, tgOut, tgSent, notTG>>

\* tg/handlers/build_replies.py main: --message prints one reply, --trigger
\* prints the replies built from the JSON given on the command line, no
\* argument prints the usage; no file is read or written
TgHandlerMain(mode, input, chat_id) ==
    /\ tgOut' = [mode |-> mode, input |-> IF mode = "trigger" THEN input ELSE <<>>,
                 chat_id |-> chat_id,
                 replies |-> IF mode = "trigger" THEN tg_build_replies(input, chat_id)
                             ELSE <<>>]
    /\ tgStage' = [u \in TgUuids |-> IF tgStage[u] = "queued" THEN "handled" ELSE tgStage[u]]
    /\ UNCHANGED <<tgTrigger, tgReply, tgLastChat, tgUuid, tgSent, notTG>>

\* tg/actions/send_replies.py main
TgActionMain(chat_id, no_clear) ==
    LET entries == load_queue(tgReply)
    IN /\ Len(tgSent) < MaxSent
       /\ IF entries = <<>>
          THEN UNCHANGED <<tgReply, tgSent>>
          ELSE /\ tgSent' = tgSent \o tg_send_all(entries, chat_id)
               /\ tgReply' = IF no_clear THEN tgReply ELSE clear_queue
       /\ tgStage' = [u \in TgUuids |-> IF tgStage[u] = "handled" THEN "actioned" ELSE tgStage[u]]
       /\ UNCHANGED <<tgTrigger, tgLastChat, tgUuid, tgOut, notTG>>

\* ------------------------------------------------ gmail/ trigger
GmailIds == {"m1", "m2"}

\* the trigger entry poll_inbox builds of a fetched message (sender, subject,
\* body and timestamps are left out: poll_inbox copies them unread)
gmail_trigger_entry(id, msg_id) ==
    [id |-> id, source |-> "gmail", gmail_message_id |-> msg_id]

\* messages().list(q="is:unread in:inbox", maxResults=n): at most n unread ids
RECURSIVE gmail_list(_, _, _)
gmail_list(inbox, ids, max_results) ==
    IF ids = {} \/ max_results = 0 THEN <<>>
    ELSE LET m == CHOOSE x \in ids : TRUE
         IN IF inbox[m] = "unread"
            THEN <<m>> \o gmail_list(inbox, ids \ {m}, max_results - 1)
            ELSE gmail_list(inbox, ids \ {m}, max_results)

PollIdle == [pc |-> "idle", todo |-> <<>>, mark_as_read |-> TRUE]

GParked ==
    /\ gInbox = [m \in GmailIds |-> "absent"]
    /\ gTrigger = MissingFile
    /\ gPoll = PollIdle
    /\ gUuid = 0
    /\ gAllMark = TRUE

GInit == GParked

\* a new message arrives in the inbox, unread
GmailArrives(m) ==
    /\ gInbox[m] = "absent"
    /\ gInbox' = [gInbox EXCEPT ![m] = "unread"]
    /\ UNCHANGED <<gTrigger, gPoll, gUuid, gAllMark, notG>>

\* poll_inbox lines 82-101: list the unread inbox messages; return 0 if none
PollList(mark_as_read, max_results) ==
    /\ gPoll.pc = "idle"
    /\ gUuid < MaxGQueue
    /\ LET messages_meta == gmail_list(gInbox, GmailIds, max_results)
       IN gPoll' = IF messages_meta = <<>> THEN PollIdle
                   ELSE [pc |-> "fetch", todo |-> messages_meta,
                         mark_as_read |-> mark_as_read]
    /\ gAllMark' = (gAllMark /\ mark_as_read)
    /\ UNCHANGED <<gInbox, gTrigger, gUuid, notG>>

\* after one message of the loop: the next one, or return
PollAdvance(poll) ==
    IF Len(poll.todo) > 1
    THEN [poll EXCEPT !.pc = "fetch", !.todo = Tail(poll.todo)]
    ELSE PollIdle

\* poll_inbox lines 103-134: fetch and parse the message, build the entry,
\* append it to the trigger queue
PollFetchAppend ==
    /\ gPoll.pc = "fetch"
    /\ gUuid < MaxGQueue
    /\ gUuid' = gUuid + 1
    /\ gTrigger' = append_queue(gTrigger,
                                gmail_trigger_entry(uuid4(gUuid + 1), Head(gPoll.todo)))
    /\ gPoll' = IF gPoll.mark_as_read THEN [gPoll EXCEPT !.pc = "mark"]
                ELSE PollAdvance(gPoll)
    /\ UNCHANGED <<gInbox, gAllMark, notG>>

\* poll_inbox lines 137-138 and modify_labels: the UNREAD label is removed
PollMarkRead ==
    /\ gPoll.pc = "mark"
    /\ gInbox' = [gInbox EXCEPT ![Head(gPoll.todo)] = "read"]
    /\ gPoll' = PollAdvance(gPoll)
    /\ UNCHANGED <<gTrigger, gUuid, gAllMark, notG>>

\* a Gmail API call of the loop (messages().get or messages().modify) raises:
\* poll_inbox catches nothing, so the call ends there with the exception
PollApiRaises ==
    /\ gPoll.pc \in {"fetch", "mark"}
    /\ gPoll' = PollIdle
    /\ UNCHANGED <<gInbox, gTrigger, gUuid, gAllMark, notG>>

\* ------------------------------------------------ Telegram bot handlers
\* the three copies of the text-message handler: bot.py handle_text_message,
\* ChatBotGeneric/bot.py handle_message, services/telegram/handlers.py
BotVariants == {"bot", "generic", "services"}
BotTexts == {"hi", " "}
BotAnswers == {"a1", "a2"}

\* the fixed reply of the except branch
apology(variant) ==
    IF variant = "generic" THEN "Sorry, something went wrong. Please try again."
    ELSE "Sorry, something went wrong. Please try again later."

\* ChatBotGeneric/agent.py run() raises ValueError for a blank question
run_rejects(text) == text \in {"", " "}

NoUpdate == [variant |-> "bot", text |-> "", pc |-> "idle", typed |-> FALSE,
             agentCalls |-> 0, result |-> "none", answer |-> "", reply |-> "",
             afterFailure |-> FALSE]

BParked ==
    /\ bUpd = NoUpdate
    /\ bReplies = <<>>
    /\ bServed = 0

BInit == BParked

\* the dispatcher hands a text update to the handler
BotReceive(variant, text) ==
    /\ bUpd.pc \in {"idle", "done"}
    /\ bServed < MaxUpdates
    /\ bUpd' = [NoUpdate EXCEPT !.variant = variant, !.text = text, !.pc = "typing",
                                !.afterFailure = (bUpd.result = "raised")]
    /\ bReplies' = <<>>
    /\ UNCHANGED <<bServed, notB>>

\* send_chat_action / msg.chat.send_action (for "generic" after log_update):
\* outside the try block, so if it raises the handler ends there
BotTyping(ok) ==
    /\ bUpd.pc = "typing"
    /\ bUpd' = IF ok THEN [bUpd EXCEPT !.pc = "agent", !.typed = TRUE]
               ELSE [bUpd EXCEPT !.pc = "done"]
    /\ bServed' = IF ok THEN bServed ELSE bServed + 1
    /\ UNCHANGED <<bReplies, notB>>

BotAgent_unhandled(outcome, answer) ==
    /\ bUpd.pc = "agent"
    /\ (bUpd.variant = "generic" /\ run_rejects(bUpd.text)) => outcome = "raised"
    /\ bUpd' = IF outcome = "returned"
               THEN [bUpd EXCEPT !.pc = "reply", !.agentCalls = @ + 1,
                                 !.result = "returned", !.answer = answer,
                                 !.reply = answer]
               ELSE [bUpd EXCEPT !.pc = "done", !.agentCalls = @ + 1,
                                 !.result = "raised"]
    /\ bServed' = IF outcome = "returned" THEN bServed ELSE bServed + 1
    /\ UNCHANGED <<bReplies, notB>>

\* the try block: agent.handle_message / run returns the answer, or raises and
\* the except branch logs it and takes the apology as the reply
BotAgent(outcome, answer) ==
    /\ bUpd.pc = "agent"
    /\ (bUpd.variant = "generic" /\ run_rejects(bUpd.text)) => outcome = "raised"
    /\ bUpd' = IF outcome = "returned"
               THEN [bUpd EXCEPT !.pc = "reply", !.agentCalls = @ + 1,
                                 !.result = "returned", !.answer = answer,
                                 !.reply = answer]
               ELSE [bUpd EXCEPT !.pc = "reply", !.agentCalls = @ + 1,
                                 !.result = "raised",
                                 !.reply = apology(bUpd.variant)]
    /\ UNCHANGED <<bReplies, bServed, notB>>

\* update.message.reply_text(reply): the last statement of the handler
BotReply ==
    /\ bUpd.pc = "reply"
    /\ bReplies' = Append(bReplies, bUpd.reply)
    /\ bUpd' = [bUpd EXCEPT !.pc = "done"]
    /\ bServed' = bServed + 1
    /\ UNCHANGED notB

\* ------------------------------------------------ build_messages
ContextPrefix == "Use the following knowledge base context to answer the user's question:\n\n"
BmPrompts == {"sys"}
BmContexts == {"", "ctx"}
BmQuestions == {"q"}

build_messages_always_context(system_prompt, context, history, question) ==
    [messages |-> <<[role |-> "system", content |-> system_prompt],
                    [role |-> "system", content |-> ContextPrefix \o context]>>
                  \o history \o <<[role |-> "user", content |-> question]>>,
     history |-> history]

\* ChatBotGeneric/chat.py build_messages: the list returned, and the history
\* list as the call leaves it
build_messages_generic(system_prompt, context, history, question) ==
    LET m1 == <<[role |-> "system", content |-> system_prompt]>>
        m2 == IF context # ""
              THEN Append(m1, [role |-> "system", content |-> ContextPrefix \o context])
              ELSE m1
        m3 == m2 \o history
    IN [messages |-> Append(m3, [role |-> "user", content |-> question]),
        history |-> history]

\* agent/chat.py build_messages: the same statements
build_messages_agent(system_prompt, context, history, question) ==
    LET m1 == <<[role |-> "system", content |-> system_prompt]>>
        m2 == IF context # ""
              THEN Append(m1, [role |-> "system", content |-> ContextPrefix \o context])
              ELSE m1
        m3 == m2 \o history
    IN [messages |-> Append(m3, [role |-> "user", content |-> question]),
        history |-> history]

BMParked ==
    /\ bmArgs = [impl |-> "generic", system_prompt |-> "sys", context |-> "",
                 history |-> <<>>, question |-> "q"]
    /\ bmOut = [messages |-> <<>>, history |-> <<>>]
    /\ bmpc = "start"

BMInit ==
    /\ bmArgs \in [impl : {"generic", "agent"}, system_prompt : BmPrompts,
                   context : BmContexts, history : SeqsUpTo(Messages, MaxHistory),
                   question : BmQuestions]
    /\ bmOut = [messages |-> <<>>, history |-> <<>>]
    /\ bmpc = "start"

BmCall ==
    /\ bmpc = "start"
    /\ bmOut' = IF bmArgs.impl = "generic"
                THEN build_messages_generic(bmArgs.system_prompt, bmArgs.context,
                                            bmArgs.history, bmArgs.question)
                ELSE build_messages_agent(bmArgs.system_prompt, bmArgs.context,
                                          bmArgs.history, bmArgs.question)
    /\ bmpc' = "done"
    /\ UNCHANGED <<bmArgs, notBM>>

\* ------------------------------------------------ ChatBotGeneric/agent.py run()
RunQuestions == {"q1", " q1 ", " ", ""}
RunAnswers == {"a1"}

\* str.strip() on the questions in play
strip(text) ==
    IF text = " q1 " THEN "q1"
    ELSE IF text = " " THEN ""
    ELSE IF text = " Be brief.\n" THEN "Be brief."
    ELSE IF text = " y " THEN "y"
    ELSE IF text = " Yes\n" THEN "Yes"
    ELSE text

\* str.lower() on the answers in play
lower(text) ==
    IF text = "Y" THEN "y"
    ELSE IF text \in {"YES", "Yes"} THEN "yes"
    ELSE IF text = "N" THEN "n"
    ELSE text

\* config.json as run() reads it: the file may be missing, and each required
\* key may be absent or empty (.get(key, "") gives "" for both)
RunConfigs ==
    [present : BOOLEAN, openai_api_key : {"", "sk"}, pinecone_api_key : {"", "pc"},
     index_name : {"", "idx"}, max_history : (0 - 1)..MaxPairs]

\* append_exchange: a new list, the history followed by the exchange
append_exchange(history, question, answer) ==
    history \o <<[role |-> "user", content |-> question],
                 [role |-> "assistant", content |-> answer]>>

\* run() lines 94-119: the first check that fails, or "" when none does
run_precondition_error(question, cfg) ==
    IF question = "" \/ strip(question) = "" THEN "Question cannot be empty."
    ELSE IF ~cfg.present THEN "config.json not found"
    ELSE IF cfg.openai_api_key = "" THEN "Missing 'openai.api_key' in config.json"
    ELSE IF cfg.pinecone_api_key = "" THEN "Missing 'pinecone.api_key' in config.json"
    ELSE IF cfg.index_name = "" THEN "Missing 'pinecone.index_name' in config.json"
    ELSE ""

RunOff == [pc |-> "off", question |-> "", max_history |-> 0, history |-> <<>>,
           answer |-> "", error |-> "", api_calls |-> 0, before |-> MissingFile]

RNParked ==
    /\ rnFile = MissingFile
    /\ rnTurn = RunOff
    /\ rnCount = 0

RNInit ==
    /\ rnFile \in {MissingFile, InvalidJson}
    /\ rnTurn = [RunOff EXCEPT !.pc = "idle", !.before = rnFile]
    /\ rnCount = 0

\* run() lines 94-123: strip the question, read config.json, check the keys
RunCall(question, cfg) ==
    /\ rnTurn.pc \in {"idle", "returned", "raised"}
    /\ rnCount < MaxRunCalls
    /\ rnCount' = rnCount + 1
    /\ LET err == run_precondition_error(question, cfg)
       IN rnTurn' = [pc |-> IF err = "" THEN "memory" ELSE "raised",
                     question |-> IF question = "" THEN "" ELSE strip(question),
                     max_history |-> cfg.max_history, history |-> <<>>,
                     answer |-> "", error |-> err, api_calls |-> 0,
                     before |-> rnFile]
    /\ UNCHANGED <<rnFile, notRN>>

\* run() line 134: history = load_memory(mem_path)
RunLoadMemory ==
    /\ rnTurn.pc = "memory"
    /\ rnTurn' = [rnTurn EXCEPT !.pc = "retrieve", !.history = load_memory(rnFile)]
    /\ UNCHANGED <<rnFile, rnCount, notRN>>

\* run() lines 141-149: retrieve_context calls OpenAI embeddings and Pinecone
RunRetrieveContext(ok) ==
    /\ rnTurn.pc = "retrieve"
    /\ rnTurn' = IF ok THEN [rnTurn EXCEPT !.pc = "chat", !.api_calls = @ + 1]
                 ELSE [rnTurn EXCEPT !.pc = "raised", !.api_calls = @ + 1,
                                     !.error = "retrieve_context raised"]
    /\ UNCHANGED <<rnFile, rnCount, notRN>>

RunChat_saves_question(ok, answer) ==
    /\ rnTurn.pc = "chat"
    /\ rnTurn' = IF ok THEN [rnTurn EXCEPT !.pc = "save", !.api_calls = @ + 1,
                                           !.answer = answer]
                 ELSE [rnTurn EXCEPT !.pc = "raised", !.api_calls = @ + 1,
                                     !.error = "chat raised"]
    /\ rnFile' = save_memory_generic(
                     Append(rnTurn.history, [role |-> "user", content |-> rnTurn.question]),
                     rnTurn.max_history)
    /\ UNCHANGED <<rnCount, notRN>>

\* run() lines 153-160: chat() calls the completion API
RunChat(ok, answer) ==
    /\ rnTurn.pc = "chat"
    /\ rnTurn' = IF ok THEN [rnTurn EXCEPT !.pc = "save", !.api_calls = @ + 1,
                                           !.answer = answer]
                 ELSE [rnTurn EXCEPT !.pc = "raised", !.api_calls = @ + 1,
                                     !.error = "chat raised"]
    /\ UNCHANGED <<rnFile, rnCount, notRN>>

\* run() lines 163-166: append the exchange, save the memory, return the answer
RunSaveMemory ==
    /\ rnTurn.pc = "save"
    /\ rnFile' = save_memory_generic(
                     append_exchange(rnTurn.history, rnTurn.question, rnTurn.answer),
                     rnTurn.max_history)
    /\ rnTurn' = [rnTurn EXCEPT !.pc = "returned"]
    /\ UNCHANGED <<rnCount, notRN>>

\* ------------------------------------------------ queue_manager on any file
\* a file whose bytes are not valid UTF-8 (a cut multi-byte character, another
\* encoding), and a path that exists but cannot be read
NotUtf8 == [kind |-> "not_utf8", items |-> <<>>]
Unreadable == [kind |-> "unreadable", items |-> <<>>]

\* a call of load_queue: the exception that leaves it, or the value returned.
\* read_text raises UnicodeDecodeError for bytes that are not UTF-8; the
\* except clause names json.JSONDecodeError and OSError only
load_queue_call(f) ==
    IF f.kind = "not_utf8"
    THEN [raised |-> "UnicodeDecodeError", value |-> <<>>]
    ELSE [raised |-> "", value |-> load_queue(f)]

NoFileCall == [op |-> "none", before |-> MissingFile, raised |-> "", value |-> <<>>,
               clears |-> 0, cleared |-> MissingFile]

FParked ==
    /\ fFile = MissingFile
    /\ fCall = NoFileCall

FInit ==
    /\ fFile \in {MissingFile, InvalidJson, JsonObject, NotUtf8, Unreadable}
                 \cup {json_dumps(es) : es \in SeqsUpTo(QueueEntries, MaxQueue)}
    /\ fCall = NoFileCall

FLoad ==
    /\ LET r == load_queue_call(fFile)
       IN fCall' = [op |-> "load", before |-> fFile, raised |-> r.raised,
                    value |-> r.value, clears |-> 0, cleared |-> MissingFile]
    /\ UNCHANGED <<fFile, notF>>

\* clear_queue; `cleared` keeps the file as the first clear of a row left it
FClear ==
    /\ fFile' = clear_queue
    /\ fCall' = [op |-> "clear", before |-> fFile, raised |-> "", value |-> <<>>,
                 clears |-> Min(fCall.clears + 1, 2),
                 cleared |-> IF fCall.clears = 0 THEN clear_queue ELSE fCall.cleared]
    /\ UNCHANGED notF

\* save_queue: the file is overwritten without being read
FSave(es) ==
    /\ fFile' = save_queue(es)
    /\ fCall' = [op |-> "save", before |-> fFile, raised |-> "", value |-> <<>>,
                 clears |-> 0, cleared |-> MissingFile]
    /\ UNCHANGED notF

\* append_queue: its load_queue call may raise, and then nothing is written
FAppend(e) ==
    /\ Len(load_queue(fFile)) < MaxQueue
    /\ LET r == load_queue_call(fFile)
       IN /\ fFile' = IF r.raised = "" THEN save_queue(Append(r.value, e)) ELSE fFile
          /\ fCall' = [op |-> "append", before |-> fFile, raised |-> r.raised,
                       value |-> <<>>, clears |-> 0, cleared |-> MissingFile]
    /\ UNCHANGED notF

\* ------------------------------------------------ program start and configuration
\* bot.py with config.py (environment variables), telegram/triggers/bot.py with
\* telegram/utils/config.py, ChatBotGeneric/bot.py and the ChatBotGeneric/agent.py
\* command line with ChatBotGeneric/config.json
Programs == {"bot", "telegram_trigger", "generic_bot", "generic_cli"}

\* the configuration a program finds: the .env / config.json file may be missing,
\* and each value may be absent or empty
PgConfigs ==
    [present : BOOLEAN, bot_token : {"", "tok"}, openai_api_key : {"", "sk"},
     pinecone_api_key : {"", "pc"}, index_name : {"", "idx"}]

\* os.getenv(key) / config.get(section, {}).get(key, "")
config_get(cfg, key) == IF cfg.present THEN cfg[key] ELSE ""

\* the values a program needs to do its work
RequiredKeys(program) ==
    IF program = "telegram_trigger" THEN {"bot_token"}
    ELSE IF program = "generic_cli" THEN {"openai_api_key", "pinecone_api_key", "index_name"}
    ELSE {"bot_token", "openai_api_key", "pinecone_api_key", "index_name"}

\* config.py: _require for each variable at import, in this order
require_all(cfg) ==
    IF config_get(cfg, "bot_token") = ""
    THEN "ERROR: Missing required environment variable: TELEGRAM_BOT_TOKEN"
    ELSE IF config_get(cfg, "openai_api_key") = ""
    THEN "ERROR: Missing required environment variable: OPENAI_API_KEY"
    ELSE IF config_get(cfg, "pinecone_api_key") = ""
    THEN "ERROR: Missing required environment variable: PINECONE_API_KEY"
    ELSE IF config_get(cfg, "index_name") = ""
    THEN "ERROR: Missing required environment variable: PINECONE_INDEX_NAME"
    ELSE ""

\* telegram/utils/config.py load_config then get_bot_token
get_bot_token_error(cfg) ==
    IF ~cfg.present THEN "ERROR: Config file not found"
    ELSE IF cfg.bot_token = "" THEN "ERROR: Missing 'telegram.bot_token' in config.json"
    ELSE ""

\* ChatBotGeneric/bot.py main: _load_config, then the bot token only
generic_bot_main_error(cfg) ==
    IF ~cfg.present THEN "FileNotFoundError: Config file not found"
    ELSE IF cfg.bot_token = "" THEN "ERROR: Missing 'telegram.bot_token' in config.json"
    ELSE ""

\* the message a program ends its start with, or "" when it goes on
startup_error(program, cfg) ==
    IF program = "bot" THEN require_all(cfg)
    ELSE IF program = "telegram_trigger" THEN get_bot_token_error(cfg)
    ELSE IF program = "generic_bot" THEN generic_bot_main_error(cfg)
    ELSE run_precondition_error("q1", cfg)

NotStarted == [program |-> "bot", pc |-> "off", exit_message |-> "",
               cfg |-> [present |-> FALSE, bot_token |-> "", openai_api_key |-> "",
                        pinecone_api_key |-> "", index_name |-> ""],
               received |-> 0, answered |-> 0, api_calls |-> 0]

PGParked == pgProg = NotStarted

PGInit ==
    \E program \in Programs, cfg \in PgConfigs :
        pgProg = [NotStarted EXCEPT !.program = program, !.cfg = cfg, !.pc = "start"]

\* the program starts: it exits with a message, or goes on to serve
PgStart ==
    /\ pgProg.pc = "start"
    /\ LET err == startup_error(pgProg.program, pgProg.cfg)
       IN pgProg' = [pgProg EXCEPT !.pc = IF err = "" THEN "serving" ELSE "exited",
                                   !.exit_message = err]
    /\ UNCHANGED notPG

\* a serving program gets a message (the command line: its question).
\* ChatBotGeneric/bot.py calls run(), which raises before any call to OpenAI or
\* Pinecone when a key is missing; the handler then replies with its apology
\* through the Telegram API.  The other programs do their work.
PgHandleMessage ==
    /\ pgProg.pc = "serving"
    /\ pgProg.received < MaxUpdates
    /\ LET run_error == IF pgProg.program = "generic_bot"
                        THEN run_precondition_error("q1", pgProg.cfg) ELSE ""
       IN pgProg' = [pgProg EXCEPT
                        !.received = @ + 1,
                        !.answered = @ + 1,
                        !.api_calls = @ + (IF run_error = "" THEN 4 ELSE 2)]
    /\ UNCHANGED notPG

\* ------------------------------------------------ load_prompt
DefaultPrompt == "You are a helpful assistant. Answer questions using only the provided context. If you don't know the answer, say so honestly."

\* prompt_path: None, or a path to a text or .docx file
PromptPaths == {NoneV, "system_message.txt", "prompt.docx"}
PromptDefaults == {NoneV, "", "Custom."}
PromptTexts == {"Be brief.", " Be brief.\n", " "}

\* ChatBotGeneric/prompt.py load_prompt: the exception raised or the text returned
load_prompt_generic(prompt_path, default, exists, text) ==
    LET fallback == IF default # NoneV THEN default ELSE DefaultPrompt
    IN IF prompt_path = NoneV THEN [raised |-> "", value |-> fallback]
       ELSE IF ~exists
            THEN IF default # NoneV THEN [raised |-> "", value |-> fallback]
                 ELSE [raised |-> "FileNotFoundError", value |-> ""]
       ELSE [raised |-> "", value |-> strip(text)]

\* agent/prompt.py load_prompt: the same, with _load_text or _load_docx (both
\* strip the text they read) for an existing file
load_prompt_agent(prompt_path, default, exists, text) ==
    LET fallback == IF default # NoneV THEN default ELSE DefaultPrompt
    IN IF prompt_path = NoneV THEN [raised |-> "", value |-> fallback]
       ELSE IF ~exists
            THEN IF default # NoneV THEN [raised |-> "", value |-> fallback]
                 ELSE [raised |-> "FileNotFoundError", value |-> ""]
       ELSE IF prompt_path = "prompt.docx" THEN [raised |-> "", value |-> strip(text)]
       ELSE [raised |-> "", value |-> strip(text)]

LPParked ==
    /\ lpArgs = [impl |-> "generic", prompt_path |-> NoneV, default |-> NoneV,
                 exists |-> FALSE, text |-> " "]
    /\ lpOut = [raised |-> "", value |-> ""]
    /\ lppc = "start"

LPInit ==
    /\ lpArgs \in [impl : {"generic", "agent"}, prompt_path : PromptPaths,
                   default : PromptDefaults, exists : BOOLEAN, text : PromptTexts]
    /\ lpOut = [raised |-> "", value |-> ""]
    /\ lppc = "start"

LpCall ==
    /\ lppc = "start"
    /\ lpOut' = IF lpArgs.impl = "generic"
                THEN load_prompt_generic(lpArgs.prompt_path, lpArgs.default,
                                         lpArgs.exists, lpArgs.text)
                ELSE load_prompt_agent(lpArgs.prompt_path, lpArgs.default,
                                       lpArgs.exists, lpArgs.text)
    /\ lppc' = "done"
    /\ UNCHANGED <<lpArgs, notLP>>

\* ------------------------------------------------ gmail/actions/send_replies.py
\* reply queue entries: with or without recipient, reply text and thread ids
GmailReplyEntries ==
    [to : {"", "a@x.org"}, subject : {"Re: hi"}, reply : [text : {"", "ok"}],
     gmail_message_id : {NoneV, "m1"}, gmail_thread_id : {NoneV, "t1"}]

SaOff == [pc |-> "off", entries |-> <<>>, i |-> 1, sent |-> 0, done |-> <<>>, ret |-> 0]

SAParked == saRun = SaOff

SAInit ==
    \E entries \in SeqsUpTo(GmailReplyEntries, MaxReplies) :
        saRun = [SaOff EXCEPT !.pc = "loop", !.entries = entries]

\* the API call send_all makes for an entry
send_call(entry) ==
    IF ~Falsy(entry.gmail_message_id) /\ ~Falsy(entry.gmail_thread_id)
    THEN "reply_email" ELSE "send_email"

\* lines 78-80: an entry without recipient or reply text is skipped
SaSkip ==
    /\ saRun.pc = "loop"
    /\ saRun.i <= Len(saRun.entries)
    /\ LET entry == saRun.entries[saRun.i]
       IN Falsy(entry.to) \/ Falsy(entry.reply.text)
    /\ saRun' = [saRun EXCEPT !.i = @ + 1,
                              !.done = Append(@, [call |-> "none", result |-> "skipped"])]
    /\ UNCHANGED notSA

\* lines 82-100: reply_email / send_email returns, sent += 1
SaSendReturns ==
    /\ saRun.pc = "loop"
    /\ saRun.i <= Len(saRun.entries)
    /\ LET entry == saRun.entries[saRun.i]
       IN /\ ~(Falsy(entry.to) \/ Falsy(entry.reply.text))
          /\ saRun' = [saRun EXCEPT !.i = @ + 1, !.sent = @ + 1,
                                    !.done = Append(@, [call |-> send_call(entry),
                                                        result |-> "returned"])]
    /\ UNCHANGED notSA

SaSendRaises_aborts ==
    /\ saRun.pc = "loop"
    /\ saRun.i <= Len(saRun.entries)
    /\ LET entry == saRun.entries[saRun.i]
       IN /\ ~(Falsy(entry.to) \/ Falsy(entry.reply.text))
          /\ saRun' = [saRun EXCEPT !.pc = "returned", !.ret = saRun.sent,
                                    !.done = Append(@, [call |-> send_call(entry),
                                                        result |-> "raised"])]
    /\ UNCHANGED notSA

\* lines 82-102: reply_email / send_email raises; the except branch logs it and
\* the loop goes on
SaSendRaises ==
    /\ saRun.pc = "loop"
    /\ saRun.i <= Len(saRun.entries)
    /\ LET entry == saRun.entries[saRun.i]
       IN /\ ~(Falsy(entry.to) \/ Falsy(entry.reply.text))
          /\ saRun' = [saRun EXCEPT !.i = @ + 1,
                                    !.done = Append(@, [call |-> send_call(entry),
                                                        result |-> "raised"])]
    /\ UNCHANGED notSA

\* line 104: return sent
SaReturn ==
    /\ saRun.pc = "loop"
    /\ saRun.i > Len(saRun.entries)
    /\ saRun' = [saRun EXCEPT !.pc = "returned", !.ret = saRun.sent]
    /\ UNCHANGED notSA

\* ------------------------------------------------ tools/pinecone deletes
PineconeDeletes == {"delete_index", "delete_all", "delete_namespace"}
PdAnswers == {"y", "Y", " y ", "yes", "YES", " Yes\n", "", "n", "N", "no", "yeah"}

confirmed_by_prefix(answer) == lower(strip(answer)) \in {"y", "yes", "yeah"}

\* answer.strip().lower() not in ("y", "yes") aborts
confirmed(answer) == lower(strip(answer)) \in {"y", "yes"}

NoDelete == [fn |-> "delete_index", skip_confirm |-> FALSE, pc |-> "off",
             prompted |-> FALSE, answer |-> "", deleted |-> FALSE, before |-> "present"]

PDParked ==
    /\ pdCall = NoDelete
    /\ pdTarget = "present"
    /\ pdCalls = 0

PDInit ==
    /\ pdCall = [NoDelete EXCEPT !.pc = "idle"]
    /\ pdTarget \in {"present", "gone"}
    /\ pdCalls = 0

\* the call up to the prompt: delete_index and delete_namespace return at once
\* when the index / namespace does not exist; with skip_confirm no prompt is shown
PdCall(fn, skip_confirm) ==
    /\ pdCall.pc \in {"idle", "returned"}
    /\ pdCalls < MaxDeleteCalls
    /\ pdCalls' = pdCalls + 1
    /\ pdCall' = [fn |-> fn, skip_confirm |-> skip_confirm,
                  pc |-> IF fn # "delete_all" /\ pdTarget = "gone" THEN "returned"
                         ELSE IF ~skip_confirm THEN "prompt"
                         ELSE "delete",
                  prompted |-> FALSE, answer |-> "", deleted |-> FALSE,
                  before |-> pdTarget]
    /\ UNCHANGED <<pdTarget, notPD>>

\* input(...): the user types an answer
PdAnswer(answer) ==
    /\ pdCall.pc = "prompt"
    /\ pdCall' = [pdCall EXCEPT !.prompted = TRUE, !.answer = answer,
                                !.pc = IF confirmed(answer) THEN "delete" ELSE "returned"]
    /\ UNCHANGED <<pdTarget, pdCalls, notPD>>

\* pc.delete_index(name) / index.delete(delete_all=True, namespace=ns)
PdDelete ==
    /\ pdCall.pc = "delete"
    /\ pdTarget' = "gone"
    /\ pdCall' = [pdCall EXCEPT !.deleted = TRUE, !.pc = "returned"]
    /\ UNCHANGED <<pdCalls, notPD>>

\* ------------------------------------------------ telegram/ trigger and handler as two processes
PtChats == {"7"}

\* the texts of a list of trigger entries
RECURSIVE entry_texts(_)
entry_texts(entries) ==
    IF entries = <<>> THEN {}
    ELSE {Head(entries).message.text} \cup entry_texts(Tail(entries))

BotIdle == [pc |-> "idle", entry |-> telegram_trigger_entry("7", ""), entries |-> <<>>]
HandlerIdle == [pc |-> "idle", entries |-> <<>>, chat_id |-> NoneV, no_clear |-> FALSE]

PTParked ==
    /\ ptTrigger = MissingFile
    /\ ptReply = MissingFile
    /\ ptBot = BotIdle
    /\ ptHandler = HandlerIdle
    /\ ptCount = 0
    /\ ptQueued = {}
    /\ ptPicked = {}

PTInit == PTParked

\* telegram/triggers/bot.py handle_message up to append_queue's load_queue; the
\* n-th message carries the text n
PtBotLoad(chat_id) ==
    /\ ptBot.pc = "idle"
    /\ ptCount < MaxPending
    /\ ptCount' = ptCount + 1
    /\ ptBot' = [pc |-> "loaded",
                 entry |-> telegram_trigger_entry(chat_id, ToString(ptCount + 1)),
                 entries |-> load_queue(ptTrigger)]
    /\ UNCHANGED <<ptTrigger, ptReply, ptHandler, ptQueued, ptPicked, notPT>>

\* append_queue lines 91-92: append to the list loaded and write it back
PtBotSave ==
    /\ ptBot.pc = "loaded"
    /\ ptTrigger' = save_queue(Append(ptBot.entries, ptBot.entry))
    /\ ptQueued' = ptQueued \cup {ptBot.entry.message.text}
    /\ ptBot' = BotIdle
    /\ UNCHANGED <<ptReply, ptHandler, ptCount, ptPicked, notPT>>

\* build_replies.py main lines 145-149: load the trigger queue, return if empty
PtHandlerLoad(chat_id, no_clear) ==
    /\ ptHandler.pc = "idle"
    /\ LET entries == load_queue(ptTrigger)
       IN /\ ptHandler' = IF entries = <<>> THEN HandlerIdle
                          ELSE [pc |-> "loaded", entries |-> entries,
                                chat_id |-> chat_id, no_clear |-> no_clear]
          /\ ptPicked' = ptPicked \cup entry_texts(entries)
    /\ UNCHANGED <<ptTrigger, ptReply, ptBot, ptCount, ptQueued, notPT>>

\* main lines 153-159: build the replies, write the reply queue
PtHandlerSave ==
    /\ ptHandler.pc = "loaded"
    /\ ptReply' = save_queue(telegram_build_replies(ptHandler.entries, ptHandler.chat_id))
    /\ ptHandler' = IF ptHandler.no_clear THEN HandlerIdle
                    ELSE [ptHandler EXCEPT !.pc = "saved"]
    /\ UNCHANGED <<ptTrigger, ptBot, ptCount, ptQueued, ptPicked, notPT>>

\* main lines 162-164: clear the trigger queue
PtHandlerClear ==
    /\ ptHandler.pc = "saved"
    /\ ptTrigger' = clear_queue
    /\ ptHandler' = HandlerIdle
    /\ UNCHANGED <<ptReply, ptBot, ptCount, ptQueued, ptPicked, notPT>>

\* ------------------------------------------------ specifications
InitQueue == QInit /\ RParked /\ MParked /\ SMParked /\ TLParked /\ TGParked /\ GParked /\ BParked /\ BMParked /\ RNParked /\ FParked /\ PGParked /\ LPParked /\ SAParked /\ PDParked /\ PTParked
NextQueue ==
    \/ \E e \in QueueEntries : QAppend(e)
    \/ \E es \in SeqsUpTo(QueueEntries, MaxQueue) : QSave(es)
    \/ QClear
    \/ QLoad
SpecQueue == InitQueue /\ [][NextQueue]_vars

InitRace == RInit /\ QParked /\ MParked /\ SMParked /\ TLParked /\ TGParked /\ GParked /\ BParked /\ BMParked /\ RNParked /\ FParked /\ PGParked /\ LPParked /\ SAParked /\ PDParked /\ PTParked
NextRace ==
    \/ \E p \in Procs, e \in RaceEntries : RLoad(p, e)
    \/ \E p \in Procs : RSave(p)
SpecRace == InitRace /\ [][NextRace]_vars

InitMemory == MInit /\ QParked /\ RParked /\ SMParked /\ TLParked /\ TGParked /\ GParked /\ BParked /\ BMParked /\ RNParked /\ FParked /\ PGParked /\ LPParked /\ SAParked /\ PDParked /\ PTParked
NextMemory == MSave \/ MLoad
SpecMemory == InitMemory /\ [][NextMemory]_vars

InitAgent == SMInit /\ QParked /\ RParked /\ MParked /\ TLParked /\ TGParked /\ GParked /\ BParked /\ BMParked /\ RNParked /\ FParked /\ PGParked /\ LPParked /\ SAParked /\ PDParked /\ PTParked
NextAgent ==
    \/ \E c \in ChatIds, t \in UserTexts, o \in AgentOutcomes, r \in Replies :
          AgentHandleMessage(c, t, o, r)
    \/ \E c \in ChatIds : AgentClearMemory(c)
SpecAgent == InitAgent /\ [][NextAgent]_vars

InitTelegram == TLInit /\ QParked /\ RParked /\ MParked /\ SMParked /\ TGParked /\ GParked /\ BParked /\ BMParked /\ RNParked /\ FParked /\ PGParked /\ LPParked /\ SAParked /\ PDParked /\ PTParked
NextTelegram ==
    \/ \E c \in TlChats, t \in TlTexts : TlTriggerHandleMessage(c, t)
    \/ \E c \in {NoneV, "7"}, nc \in BOOLEAN : TlHandlerMain(c, nc)
SpecTelegram == InitTelegram /\ [][NextTelegram]_vars

InitTg == TGInit /\ QParked /\ RParked /\ MParked /\ SMParked /\ TLParked /\ GParked /\ BParked /\ BMParked /\ RNParked /\ FParked /\ PGParked /\ LPParked /\ SAParked /\ PDParked /\ PTParked
NextTg ==
    \/ \E c \in TgChats, t \in TgTexts \cup {""} : TgTriggerHandleMessage(c, t)
    \/ \E mode \in {"message", "trigger", "usage"}, c \in {NoneV, "7"},
          input \in {load_queue(tgTrigger)} \cup {<<e>> : e \in TgForeignEntries} :
          TgHandlerMain(mode, input, c)
    \/ \E c \in {NoneV, "7"}, nc \in BOOLEAN : TgActionMain(c, nc)
SpecTg == InitTg /\ [][NextTg]_vars

InitGmail == GInit /\ QParked /\ RParked /\ MParked /\ SMParked /\ TLParked /\ TGParked /\ BParked /\ BMParked /\ RNParked /\ FParked /\ PGParked /\ LPParked /\ SAParked /\ PDParked /\ PTParked
NextGmail ==
    \/ \E m \in GmailIds : GmailArrives(m)
    \/ \E mark \in BOOLEAN, n \in 1..2 : PollList(mark, n)
    \/ PollFetchAppend
    \/ PollMarkRead
    \/ PollApiRaises
SpecGmail == InitGmail /\ [][NextGmail]_vars

InitBot == BInit /\ QParked /\ RParked /\ MParked /\ SMParked /\ TLParked /\ TGParked /\ GParked /\ BMParked /\ RNParked /\ FParked /\ PGParked /\ LPParked /\ SAParked /\ PDParked /\ PTParked
NextBot ==
    \/ \E v \in BotVariants, t \in BotTexts : BotReceive(v, t)
    \/ \E ok \in BOOLEAN : BotTyping(ok)
    \/ \E o \in {"returned", "raised"}, a \in BotAnswers : BotAgent(o, a)
    \/ BotReply
SpecBot == InitBot /\ [][NextBot]_vars

InitBuildMessages == BMInit /\ QParked /\ RParked /\ MParked /\ SMParked /\ TLParked /\ TGParked /\ GParked /\ BParked /\ RNParked /\ FParked /\ PGParked /\ LPParked /\ SAParked /\ PDParked /\ PTParked
NextBuildMessages == BmCall
SpecBuildMessages == InitBuildMessages /\ [][NextBuildMessages]_vars

\* a turn of either agent: ChatBotAgent with its SimpleMemory, or run() with
\* its memory file
InitTurn == ((SMInit /\ RNParked) \/ (SMParked /\ RNInit)) /\ QParked /\ RParked /\ MParked /\ TLParked /\ TGParked /\ GParked /\ BParked /\ BMParked /\ FParked /\ PGParked /\ LPParked /\ SAParked /\ PDParked /\ PTParked
NextTurn ==
    \/ /\ rnTurn.pc = "off"
       /\ \E c \in ChatIds, t \in UserTexts, o \in AgentOutcomes, r \in Replies :
             AgentHandleMessage(c, t, o, r)
    \/ /\ rnTurn.pc = "off"
       /\ \E c \in ChatIds : AgentClearMemory(c)
    \/ \E q \in RunQuestions, cfg \in RunConfigs : RunCall(q, cfg)
    \/ RunLoadMemory
    \/ \E ok \in BOOLEAN : RunRetrieveContext(ok)
    \/ \E ok \in BOOLEAN, a \in RunAnswers : RunChat(ok, a)
    \/ RunSaveMemory
SpecTurn == InitTurn /\ [][NextTurn]_vars

InitQueueFile == FInit /\ QParked /\ RParked /\ MParked /\ SMParked /\ TLParked /\ TGParked /\ GParked /\ BParked /\ BMParked /\ RNParked /\ PGParked /\ LPParked /\ SAParked /\ PDParked /\ PTParked
NextQueueFile ==
    \/ FLoad
    \/ FClear
    \/ \E es \in SeqsUpTo(QueueEntries, MaxQueue) : FSave(es)
    \/ \E e \in QueueEntries : FAppend(e)
SpecQueueFile == InitQueueFile /\ [][NextQueueFile]_vars

InitProgram == PGInit /\ QParked /\ RParked /\ MParked /\ SMParked /\ TLParked /\ TGParked /\ GParked /\ BParked /\ BMParked /\ RNParked /\ FParked /\ LPParked /\ SAParked /\ PDParked /\ PTParked
NextProgram ==
    \/ PgStart
    \/ PgHandleMessage
SpecProgram == InitProgram /\ [][NextProgram]_vars

InitPrompt == LPInit /\ QParked /\ RParked /\ MParked /\ SMParked /\ TLParked /\ TGParked /\ GParked /\ BParked /\ BMParked /\ RNParked /\ FParked /\ PGParked /\ SAParked /\ PDParked /\ PTParked
NextPrompt == LpCall
SpecPrompt == InitPrompt /\ [][NextPrompt]_vars

InitSendAll == SAInit /\ QParked /\ RParked /\ MParked /\ SMParked /\ TLParked /\ TGParked /\ GParked /\ BParked /\ BMParked /\ RNParked /\ FParked /\ PGParked /\ LPParked /\ PDParked /\ PTParked
NextSendAll ==
    \/ SaSkip
    \/ SaSendReturns
    \/ SaSendRaises
    \/ SaReturn
SpecSendAll == InitSendAll /\ [][NextSendAll]_vars

InitPineconeDelete == PDInit /\ QParked /\ RParked /\ MParked /\ SMParked /\ TLParked /\ TGParked /\ GParked /\ BParked /\ BMParked /\ RNParked /\ FParked /\ PGParked /\ LPParked /\ SAParked /\ PTParked
NextPineconeDelete ==
    \/ \E fn \in PineconeDeletes, skip \in BOOLEAN : PdCall(fn, skip)
    \/ \E a \in PdAnswers : PdAnswer(a)
    \/ PdDelete
SpecPineconeDelete == InitPineconeDelete /\ [][NextPineconeDelete]_vars

InitPipelineRace == PTInit /\ QParked /\ RParked /\ MParked /\ SMParked /\ TLParked /\ TGParked /\ GParked /\ BParked /\ BMParked /\ RNParked /\ FParked /\ PGParked /\ LPParked /\ SAParked /\ PDParked
NextPipelineRace ==
    \/ \E c \in PtChats : PtBotLoad(c)
    \/ PtBotSave
    \/ \E c \in PtChats \cup {NoneV}, nc \in BOOLEAN : PtHandlerLoad(c, nc)
    \/ PtHandlerSave
    \/ PtHandlerClear
SpecPipelineRace == InitPipelineRace /\ [][NextPipelineRace]_vars

\* ------------------------------------------------ claims

\* C1: in single-process use load_queue returns exactly the list last written
\* by save_queue or clear_queue followed by every entry appended since, in
\* append order; and append_queue on a missing file creates a file holding the
\* one-element list.
C1_QueueIsFifo ==
    /\ load_queue(qfile) = qlog
    /\ qfile.kind = "missing" =>
          \A e \in QueueEntries : append_queue(qfile, e) = json_dumps(<<e>>)
    /\ qfile.kind # "missing" => qfile = json_dumps(qlog)

C1_Witness ==
    /\ qfile.kind = "array"
    /\ Len(qlog) = 3
    /\ qlog[1] # qlog[2]
    /\ qret = SubSeq(qlog, 1, 2)

\* C2: when both processes loaded the file before either saved, then once both
\* append_queue calls have returned the file holds the list both read plus
\* exactly one of the two entries; the other entry is lost.
C2_LostUpdate ==
    ((\A p \in Procs : rproc[p].pc = "returned") /\ rbase.raced) =>
        \E p \in Procs :
            /\ rfile = json_dumps(Append(rbase.items, rproc[p].entry))
            /\ \A q \in Procs \ {p} :
                  \A i \in 1..Len(rfile.items) : rfile.items[i] # rproc[q].entry

C2_Witness ==
    /\ \A p \in Procs : rproc[p].pc = "returned"
    /\ rbase.raced
    /\ Len(rbase.items) = 2
    /\ Len(rfile.items) = 3

\* The messages save_memory is to persist: none for N = 0, else the last
\* min(len(history), 2N) messages in their original order.
ExpectedMemory(history, n) ==
    LET k == Min(Len(history), 2 * n)
    IN [i \in 1..k |-> history[Len(history) - k + i]]

\* C3: for a limit N >= 0 save_memory (either copy) persists exactly the last
\* min(len(history), 2N) messages in order (nothing for N = 0), and the
\* following load_memory returns that list.
C3_SaveMemoryTrims ==
    (mlimit >= 0) =>
        /\ mpc \in {"saved", "loaded"} =>
              mfile = [kind |-> "array", items |-> ExpectedMemory(mhistory, mlimit)]
        /\ mpc = "loaded" => mloaded = ExpectedMemory(mhistory, mlimit)

C3_Witness ==
    /\ mpc = "loaded"
    /\ mlimit = 1
    /\ Len(mhistory) = 4
    /\ mhistory[3] # mhistory[4]
    /\ Len(mloaded) = 2

\* C4 as stated: after k completed turns since the last clear, get_history
\* holds the 2*min(k, N) messages of the most recent min(k, N) exchanges, where
\* N is max_messages.
C4_KeepsLastNExchanges ==
    \A c \in ChatIds :
        LET k == Len(smLog[c]) \div 2
            n == 2 * Min(k, smMax)
        IN get_history(smStore, c) = SubSeq(smLog[c], Len(smLog[c]) - n + 1, Len(smLog[c]))

\* C5 as stated (tg/ pipeline): every message the trigger queued is an entry of
\* reply_queue.json (or already sent) once a handler run has followed, and has
\* been sent once an action run has followed that handler run.
C5_QueuedMessageReachesAction ==
    \A u \in TgUuids :
        LET replies == load_queue(tgReply)
            sent == \E i \in 1..Len(tgSent) : tgSent[i].id = u
        IN /\ tgStage[u] = "handled" =>
                  (sent \/ \E i \in 1..Len(replies) : replies[i].id = u)
           /\ tgStage[u] = "actioned" => sent

\* an entry that has a chat id and a (non-empty) text
HasChatAndText(e) ==
    /\ e.chat.id # NoneV
    /\ e.message.text # NoneV
    /\ e.message.text # ""

\* C6: right after a handler run without --chat-id that found a non-empty
\* trigger queue, reply_queue.json holds exactly one reply per trigger entry
\* that has a chat id and text, in trigger-queue order, each with that entry's
\* chat and the text generate_reply returns for its text; the trigger queue is
\* empty, or untouched when --no-clear was given.
C6_HandlerBuildsReplyQueue ==
    (tlRun.fresh /\ tlRun.chat_id = NoneV /\ tlRun.found # <<>>) =>
        LET kept == SelectSeq(tlRun.found, HasChatAndText)
        IN /\ tlReply.kind = "array"
           /\ Len(tlReply.items) = Len(kept)
           /\ \A i \in 1..Len(kept) :
                 /\ tlReply.items[i].chat = kept[i].chat
                 /\ tlReply.items[i].reply.text = generate_reply(kept[i].message.text)
           /\ tlRun.no_clear => load_queue(tlTrigger) = tlRun.found
           /\ ~tlRun.no_clear => tlTrigger = [kind |-> "array", items |-> <<>>]

C6_Witness ==
    /\ tlRun.fresh
    /\ tlRun.chat_id = NoneV
    /\ ~tlRun.no_clear
    /\ Len(tlRun.found) = 3
    /\ ~HasChatAndText(tlRun.found[1])
    /\ tlRun.found[2].message.text # tlRun.found[3].message.text
    /\ Len(tlReply.items) = 2
    /\ tlTrigger.items = <<>>

\* the entries a build_replies call with the given filter makes replies of
TgProcessed(entries, filter_chat_id) ==
    SelectSeq(entries,
              LAMBDA e : HasChatAndText(e)
                         /\ (filter_chat_id = NoneV \/ e.chat.id = filter_chat_id))

\* C7: every entry the trigger queued has an id of its own; every reply
\* build_replies returns carries the id (and message) of the trigger entry it
\* was built from, in the same order; and when every entry given has a chat id
\* and text and no filter is set, replies and entries match one-to-one.
C7_CorrelationIds ==
    /\ LET q == load_queue(tgTrigger)
       IN \A i, j \in 1..Len(q) :
             /\ q[i].id # NoneV
             /\ (i # j => q[i].id # q[j].id)
    /\ tgOut.mode = "trigger" =>
          LET kept == TgProcessed(tgOut.input, tgOut.chat_id)
          IN /\ Len(tgOut.replies) = Len(kept)
             /\ \A i \in 1..Len(kept) :
                   /\ tgOut.replies[i].id = kept[i].id
                   /\ tgOut.replies[i].original_message = kept[i].message
    /\ (/\ tgOut.mode = "trigger"
        /\ tgOut.chat_id = NoneV
        /\ \A i \in 1..Len(tgOut.input) : HasChatAndText(tgOut.input[i])) =>
          /\ Len(tgOut.replies) = Len(tgOut.input)
          /\ \A i \in 1..Len(tgOut.input) : tgOut.replies[i].id = tgOut.input[i].id

C7_Witness ==
    /\ tgOut.mode = "trigger"
    /\ tgOut.chat_id = NoneV
    /\ tgOut.input = load_queue(tgTrigger)
    /\ Len(tgOut.input) = 3
    /\ Len(tgOut.replies) = 3
    /\ tgOut.replies[3].id = uuid4(3)

\* how many entries of the gmail trigger queue were made of inbox message m
QueuedTimes(m) ==
    LET q == load_queue(gTrigger)
    IN Cardinality({i \in 1..Len(q) : q[i].gmail_message_id = m})

\* C8 as stated: with mark_as_read enabled on every poll, a message is marked
\* read only after it was queued, and no inbox message is queued more than once
\* whatever the sequence of polls.
C8_QueuedExactlyOnce ==
    gAllMark =>
        \A m \in GmailIds :
            /\ gInbox[m] = "read" => QueuedTimes(m) >= 1
            /\ QueuedTimes(m) <= 1

\* an update is finished and its agent call and reply are as the claim says
OneCallOneReply ==
    /\ bUpd.agentCalls = 1
    /\ Len(bReplies) = 1
    /\ bUpd.result = "returned" => bReplies[1] = bUpd.answer
    /\ bUpd.result = "raised" => bReplies[1] = apology(bUpd.variant)

\* C9 as stated: for every text message the handler has finished with, the
\* agent was invoked once and exactly one reply was sent.
C9_AlwaysOneReply ==
    bUpd.pc = "done" => OneCallOneReply

\* C9 amended: for every text message whose typing-indicator call returned, the
\* handler invokes the agent exactly once and then calls reply_text exactly
\* once, with the agent's answer if the call returned and the fixed apology if
\* it raised (no retry, also for updates served after a failure); if the
\* typing-indicator call raised, the agent is not invoked and nothing is sent.
C9_OneReplyOnceTyping ==
    bUpd.pc = "done" =>
        /\ bUpd.typed => OneCallOneReply
        /\ ~bUpd.typed => (bUpd.agentCalls = 0 /\ bReplies = <<>>)

C9_Witness ==
    /\ bUpd.pc = "done"
    /\ bUpd.afterFailure
    /\ bUpd.result = "raised"
    /\ bUpd.variant = "generic"
    /\ bReplies = <<"Sorry, something went wrong. Please try again.">>

\* C10: build_messages returns the system prompt first, then one system message
\* carrying the context iff the context is non-empty, then the history in its
\* order, then the question as a user message; 2 + len(history) elements
\* without context and 3 + len(history) with it; history is left as it was.
C10_BuildMessagesShape ==
    bmpc = "done" =>
        LET msgs == bmOut.messages
            h == bmArgs.history
            off == IF bmArgs.context = "" THEN 1 ELSE 2
        IN /\ Len(msgs) = off + Len(h) + 1
           /\ msgs[1] = [role |-> "system", content |-> bmArgs.system_prompt]
           /\ bmArgs.context # "" =>
                 msgs[2] = [role |-> "system", content |-> ContextPrefix \o bmArgs.context]
           /\ \A i \in 1..Len(h) : msgs[off + i] = h[i]
           /\ msgs[Len(msgs)] = [role |-> "user", content |-> bmArgs.question]
           /\ bmOut.history = h

C10_Witness ==
    /\ bmpc = "done"
    /\ bmArgs.context = "ctx"
    /\ Len(bmArgs.history) = 3
    /\ bmArgs.history[1] # bmArgs.history[2]
    /\ Len(bmOut.messages) = 6

C10_WitnessNoContext ==
    /\ bmpc = "done"
    /\ bmArgs.context = ""
    /\ Len(bmArgs.history) = 2
    /\ Len(bmOut.messages) = 4

\* the exchange of the last ChatBotAgent turn / of the running run() call
SmExchange ==
    <<[role |-> "user", content |-> smLast.text],
      [role |-> "assistant", content |-> smLast.reply]>>

RunExchange ==
    <<[role |-> "user", content |-> rnTurn.question],
      [role |-> "assistant", content |-> rnTurn.answer]>>

\* a turn that has not reached its last step, or that raised, left the stored
\* history exactly as it was
TurnFrame ==
    /\ smLast.outcome \in {"context_raises", "completion_raises"} =>
          smStore = smLast.store
    /\ rnTurn.pc \in {"memory", "retrieve", "chat", "save", "raised"} =>
          rnFile = rnTurn.before

C11_WitnessTrimmed ==
    /\ rnTurn.pc = "returned"
    /\ rnTurn.max_history = 1
    /\ Len(load_memory(rnTurn.before)) = 2
    /\ Len(load_memory(rnFile)) = 2

\* C12: an add_user_message / add_assistant_message pair or a clear on one chat
\* leaves get_history of every other chat as it was, and after clear(A)
\* get_history(A) is empty.
C12_PerChatIsolation ==
    smLast.chat \in ChatIds =>
        /\ \A b \in ChatIds \ {smLast.chat} :
              get_history(smStore, b) = get_history(smLast.store, b)
        /\ smLast.outcome = "clear" => get_history(smStore, smLast.chat) = <<>>

C12_Witness ==
    /\ smLast.outcome = "clear"
    /\ smLast.before # <<>>
    /\ \E b \in ChatIds \ {smLast.chat} : get_history(smStore, b) # <<>>

\* C13 as stated: load_queue never raises and leaves the file as it was; it
\* returns the stored list for a JSON array and [] for a file that is missing,
\* unreadable, not valid JSON, or JSON that is not an array.
C13_LoadQueueNeverRaises ==
    fCall.op = "load" =>
        /\ fCall.raised = ""
        /\ fFile = fCall.before
        /\ fCall.value = IF fCall.before.kind = "array" THEN fCall.before.items ELSE <<>>

\* C14: after clear_queue the file holds an empty array whatever it held
\* before, load_queue then returns [], and a second clear_queue in a row
\* leaves the file as the first one did.
C14_ClearQueueIdempotent ==
    fCall.op = "clear" =>
        /\ fFile = json_dumps(<<>>)
        /\ load_queue_call(fFile) = [raised |-> "", value |-> <<>>]
        /\ fCall.clears >= 2 => (fFile = fCall.cleared /\ fFile = fCall.before)

C14_Witness ==
    /\ fCall.op = "clear"
    /\ fCall.clears = 1
    /\ fCall.before = NotUtf8

C14_WitnessTwice ==
    /\ fCall.op = "clear"
    /\ fCall.clears = 2

\* a value the program needs is missing or empty
MissingRequired ==
    \E key \in RequiredKeys(pgProg.program) : config_get(pgProg.cfg, key) = ""

\* C15 as stated: a program started with a required configuration value
\* missing or empty has exited with an error message; it has received and
\* answered no message and has made no external API call.
C15_MissingConfigExits ==
    (pgProg.pc \in {"exited", "serving"} /\ MissingRequired) =>
        /\ pgProg.pc = "exited"
        /\ pgProg.exit_message # ""
        /\ pgProg.received = 0
        /\ pgProg.answered = 0
        /\ pgProg.api_calls = 0

\* C16 as stated: load_prompt returns the fallback (the default argument, or
\* the built-in prompt when default is None) whenever prompt_path is None or
\* names a file that does not exist, and the stripped file content when the
\* file exists.
C16_LoadPromptFallback ==
    lppc = "done" =>
        LET fallback == IF lpArgs.default = NoneV THEN DefaultPrompt ELSE lpArgs.default
        IN IF lpArgs.prompt_path = NoneV \/ ~lpArgs.exists
           THEN lpOut = [raised |-> "", value |-> fallback]
           ELSE lpOut = [raised |-> "", value |-> strip(lpArgs.text)]

\* C17: when gmail send_all has returned, every entry with a recipient and a
\* reply text was attempted (a threaded reply when both ids are there, a new
\* email otherwise) whatever happened to the entries before it, the others
\* were skipped, and the value returned is the number of entries whose send
\* call returned without raising.
C17_SendAllContinues ==
    saRun.pc = "returned" =>
        /\ Len(saRun.done) = Len(saRun.entries)
        /\ \A i \in 1..Len(saRun.entries) :
              LET entry == saRun.entries[i]
              IN IF entry.to # "" /\ entry.reply.text # ""
                 THEN /\ saRun.done[i].result \in {"returned", "raised"}
                      /\ saRun.done[i].call =
                            IF entry.gmail_message_id # NoneV /\ entry.gmail_thread_id # NoneV
                            THEN "reply_email" ELSE "send_email"
                 ELSE saRun.done[i] = [call |-> "none", result |-> "skipped"]
        /\ saRun.ret = Cardinality({i \in 1..Len(saRun.done) :
                                        saRun.done[i].result = "returned"})

C17_Witness ==
    /\ saRun.pc = "returned"
    /\ Len(saRun.done) = 3
    /\ saRun.done[1].result = "raised"
    /\ saRun.done[2].result = "skipped"
    /\ saRun.done[3].result = "returned"
    /\ saRun.ret = 1

\* the answers that are 'y' or 'yes' up to case and surrounding whitespace
YesAnswers == {"y", "Y", " y ", "yes", "YES", " Yes\n"}

\* C18: delete_index, delete_all and delete_namespace call the Pinecone delete
\* operation only when skip_confirm is True or the answer typed is 'y' or 'yes'
\* (case and surrounding whitespace ignored); after any other answer the call
\* has returned without deleting and the target is as it was.
C18_DeleteNeedsConfirmation ==
    /\ pdCall.pc = "delete" \/ pdCall.deleted =>
          \/ pdCall.skip_confirm
          \/ pdCall.prompted /\ pdCall.answer \in YesAnswers
    /\ (pdCall.prompted /\ pdCall.answer \notin YesAnswers) =>
          /\ pdCall.pc = "returned"
          /\ ~pdCall.deleted
          /\ pdTarget = pdCall.before
    /\ (pdCall.prompted /\ pdCall.answer \in YesAnswers) =>
          (pdCall.pc = "delete" \/ pdCall.deleted)

C18_Witness ==
    /\ pdCall.pc = "returned"
    /\ pdCall.prompted
    /\ pdCall.answer = "yeah"
    /\ pdTarget = "present"
    /\ pdCalls = 2

C18_WitnessDeleted ==
    /\ pdCall.deleted
    /\ pdCall.answer = " Yes\n"
    /\ pdTarget = "gone"

\* C19 as stated: with the trigger bot and the handler as separate processes,
\* every entry the trigger has written to trigger_queue.json has been loaded by
\* a handler run or is still in the file for a later run to load.
C19_NoQueuedMessageLost ==
    \A text \in ptQueued :
        \/ text \in ptPicked
        \/ \E i \in 1..Len(load_queue(ptTrigger)) :
              load_queue(ptTrigger)[i].message.text = text

\* C20 as stated: for every history and every integer limit, negative ones
\* included, what one save_memory persists is what the other copy persists
\* for the same arguments.
C20_SaveMemoryInterchangeable ==
    mpc \in {"saved", "loaded"} =>
        /\ mfile = save_memory_agent(mhistory, mlimit)
        /\ mfile = save_memory_generic(mhistory, mlimit)

\* C20 amended: for every history and every limit >= 0 the two save_memory
\* copies persist the same list; for a negative limit they differ:
\* ChatBotGeneric/memory.py persists the whole history, agent/agent.py
\* persists the empty list.
C20_InterchangeableFromZero ==
    mpc \in {"saved", "loaded"} =>
        /\ mlimit >= 0 =>
              /\ mfile = save_memory_agent(mhistory, mlimit)
              /\ mfile = save_memory_generic(mhistory, mlimit)
        /\ (mlimit < 0 /\ mimpl = "generic") => mfile = json_dumps(mhistory)
        /\ (mlimit < 0 /\ mimpl = "agent") => mfile = json_dumps(<<>>)

C20_Witness ==
    /\ mpc = "loaded"
    /\ mlimit < 0
    /\ mimpl = "agent"
    /\ Len(mhistory) = 2
    /\ mloaded = <<>>

====
